---------------------------- MODULE Spec2Model ----------------------------
(***************************************************************************)
(* Model of src/util.rs of kak-lsp: the translation of LSP text edits      *)
(* (0-based, end-exclusive ranges) into a Kakoune command string           *)
(* (1-based, end-inclusive selections).                                    *)
(*                                                                         *)
(* A Rust String is modelled as a sequence of pieces.  A piece is a TLA+   *)
(* string that is either the single quote character "'" or a run of        *)
(* characters without any single quote; the String is the concatenation    *)
(* of its pieces (Flat).  editor_escape, the only character-level          *)
(* operation of the code, then acts on the quote pieces.                   *)
(***************************************************************************)
EXTENDS Integers, Sequences, FiniteSets, TLC

\* Bounds of the model.
MaxLine == 1
MaxCol == 0
MaxEdits == 2

\* The end-of-line column, 1_000_000 in the source.
EOL == 1000000

None == [none |-> TRUE]

Q == "'"

---------------------------------------------------------------------------
\* State

VARIABLES
    text_edits,         \* apply_text_edits: the argument text_edits
    uri,                \* apply_text_edits: the argument uri, as the final match reads it
    buffile,            \* the editor's active buffer (EditorMeta.buffile)
    pc,                 \* position in apply_text_edits
    edits,              \* the local edits
    select_edits,       \* the local select_edits
    adjoin_selections,  \* the local adjoin_selections
    selection_index,    \* the local selection_index
    i,                  \* the index the apply_edits iterator is at
    apply_edits,        \* the Strings the apply_edits closure has returned
    result,             \* the returned String
    the_range,          \* lsp_range_to_kakoune, lsp_text_edit_to_kakoune: the argument range
    called,             \* which of the two conversions have returned
    kak_coords,         \* lsp_range_to_kakoune: the values formatted
    kak_range,          \* lsp_range_to_kakoune: the returned String
    kak_edit            \* lsp_text_edit_to_kakoune: the returned KakouneTextEdit

vars == <<text_edits, uri, buffile, pc, edits, select_edits, adjoin_selections,
          selection_index, i, apply_edits, result,
          the_range, called, kak_coords, kak_range, kak_edit>>

applyVars == <<text_edits, uri, buffile, pc, edits, select_edits, adjoin_selections,
               selection_index, i, apply_edits, result>>
convVars == <<the_range, called, kak_coords, kak_range, kak_edit>>

---------------------------------------------------------------------------
\* Strings

RECURSIVE Flat(_)
Flat(s) == IF s = <<>> THEN "" ELSE Head(s) \o Flat(Tail(s))

Str(t) == IF t = "" THEN <<>> ELSE <<t>>

RECURSIVE editor_escape(_)
editor_escape(s) ==
    IF s = <<>> THEN <<>>
    ELSE (IF Head(s) = Q THEN <<Q, Q>> ELSE <<Head(s)>>) \o editor_escape(Tail(s))

editor_quote(s) == <<Q>> \o editor_escape(s) \o <<Q>>

\* Itertools::join over a sequence of Strings
RECURSIVE Join(_, _)
Join(ss, sep) ==
    IF ss = <<>> THEN <<>>
    ELSE IF Len(ss) = 1 THEN ss[1]
    ELSE ss[1] \o <<sep>> \o Join(Tail(ss), sep)

\* "{}.{},{}.{}"
FormatRange(sl, sc, el, ec) ==
    ToString(sl) \o "." \o ToString(sc) \o "," \o ToString(el) \o "." \o ToString(ec)

---------------------------------------------------------------------------
\* Positions, ranges, edits

Position(l, c) == [line |-> l, character |-> c]
Range(s, e) == [start |-> s, end |-> e]
TextEdit(r, t) == [range |-> r, new_text |-> t]

\* lsp_range_to_kakoune_coords with the line of an end at column 0 moved on as well
lsp_range_to_kakoune_coords_next_line(range) ==
    LET start_line == range.start.line
        start_char == range.start.character
        end_char0 == range.end.character
        end_char1 == IF start_line = range.end.line /\ start_char = end_char0
                     THEN end_char0 + 1 ELSE end_char0
    IN <<start_line + 1, start_char + 1, range.end.line + 1,
         IF end_char1 > 0 THEN end_char1 ELSE EOL>>

\* lsp_range_to_kakoune_coords without the adjustment of 0-length ranges
lsp_range_to_kakoune_coords_no_zero_length(range) ==
    LET end_char0 == range.end.character
    IN <<range.start.line + 1, range.start.character + 1,
         IF end_char0 > 0 THEN range.end.line + 1 ELSE range.end.line,
         IF end_char0 > 0 THEN end_char0 ELSE EOL>>

\* lsp_range_to_kakoune_coords with the end column made 1-based like the start
lsp_range_to_kakoune_coords_end_shift(range) ==
    LET start_line == range.start.line
        start_char == range.start.character
        end_char0 == range.end.character
        end_char1 == IF start_line = range.end.line /\ start_char = end_char0
                     THEN end_char0 + 1 ELSE end_char0
    IN <<start_line + 1, start_char + 1,
         IF end_char1 > 0 THEN range.end.line + 1 ELSE range.end.line,
         IF end_char1 > 0 THEN (IF end_char1 > 1 THEN end_char1 - 1 ELSE 1) ELSE EOL>>

\* lsp_range_to_kakoune up to the format! call: the values of
\* start_line + 1, start_char + 1, end_line, end_char that are formatted.
lsp_range_to_kakoune_coords(range) ==
    LET start_line == range.start.line
        start_char == range.start.character
        end_line0 == range.end.line
        end_char0 == range.end.character
        end_char1 == IF start_line = end_line0 /\ start_char = end_char0
                     THEN end_char0 + 1 ELSE end_char0
        end_line == IF end_char1 > 0 THEN end_line0 + 1 ELSE end_line0
        end_char == IF end_char1 > 0 THEN end_char1 ELSE EOL
    IN <<start_line + 1, start_char + 1, end_line, end_char>>

lsp_range_to_kakoune(range) ==
    LET c == lsp_range_to_kakoune_coords(range)
    IN FormatRange(c[1], c[2], c[3], c[4])

\* lsp_text_edit_to_kakoune without start_char = end_char for an insert
lsp_text_edit_to_kakoune_no_collapse(text_edit) ==
    LET range == text_edit.range
        insert == range.start = range.end
        bol_insert == insert /\ range.end.character = 0
        end_char0 == range.end.character
    IN [range |-> Range(Position(range.start.line + 1, range.start.character + 1),
                        Position(IF end_char0 > 0 \/ bol_insert
                                 THEN range.end.line + 1 ELSE range.end.line,
                                 IF end_char0 > 0 THEN end_char0
                                 ELSE IF bol_insert THEN 1 ELSE EOL)),
        new_text |-> text_edit.new_text,
        command |-> IF bol_insert THEN "InsertBefore"
                    ELSE IF insert THEN "InsertAfter"
                    ELSE "Replace"]

\* lsp_text_edit_to_kakoune without the beginning-of-line case
lsp_text_edit_to_kakoune_no_bol(text_edit) ==
    LET range == text_edit.range
        insert == range.start = range.end
        end_char0 == range.end.character
    IN [range |-> Range(Position(range.start.line + 1,
                                 IF end_char0 > 0 /\ insert THEN end_char0
                                 ELSE range.start.character + 1),
                        Position(IF end_char0 > 0
                                 THEN range.end.line + 1 ELSE range.end.line,
                                 IF end_char0 > 0 THEN end_char0 ELSE EOL)),
        new_text |-> text_edit.new_text,
        command |-> IF insert THEN "InsertAfter" ELSE "Replace"]

lsp_text_edit_to_kakoune(text_edit) ==
    LET range == text_edit.range
        insert == /\ range.start.line = range.end.line
                  /\ range.start.character = range.end.character
        bol_insert == insert /\ range.end.character = 0
        start_line == range.start.line + 1
        start_char0 == range.start.character + 1
        end_char0 == range.end.character
        start_char == IF end_char0 > 0 /\ insert THEN end_char0 ELSE start_char0
        end_line == IF end_char0 > 0 \/ bol_insert
                    THEN range.end.line + 1 ELSE range.end.line
        end_char == IF end_char0 > 0 THEN end_char0
                    ELSE IF bol_insert THEN 1 ELSE EOL
    IN [range |-> Range(Position(start_line, start_char), Position(end_line, end_char)),
        new_text |-> text_edit.new_text,
        command |-> IF bol_insert THEN "InsertBefore"
                    ELSE IF insert THEN "InsertAfter"
                    ELSE "Replace"]

---------------------------------------------------------------------------
\* Ordering

SortKey(x) == <<x.range.start.line, x.range.start.character,
                x.range.end.line, x.range.end.character>>

\* Ord for tuples: lexicographic
RECURSIVE TupleLess(_, _)
TupleLess(a, b) ==
    /\ a # <<>>
    /\ \/ Head(a) < Head(b)
       \/ Head(a) = Head(b) /\ TupleLess(Tail(a), Tail(b))

\* Insertion before the elements of equal key: a sort that is not stable
RECURSIVE UnstableInsert(_, _)
UnstableInsert(sorted, x) ==
    IF sorted = <<>> THEN <<x>>
    ELSE IF ~TupleLess(SortKey(Head(sorted)), SortKey(x))
         THEN <<x>> \o sorted
         ELSE <<Head(sorted)>> \o UnstableInsert(Tail(sorted), x)

\* Stable insertion: x goes after every element whose key is not greater.
RECURSIVE StableInsert(_, _)
StableInsert(sorted, x) ==
    IF sorted = <<>> THEN <<x>>
    ELSE IF TupleLess(SortKey(x), SortKey(Head(sorted)))
         THEN <<x>> \o sorted
         ELSE <<Head(sorted)>> \o StableInsert(Tail(sorted), x)

RECURSIVE SortFrom(_, _)
SortFrom(sorted, rest) ==
    IF rest = <<>> THEN sorted
    ELSE SortFrom(StableInsert(sorted, Head(rest)), Tail(rest))

sort_by_key(v) == SortFrom(<<>>, v)

---------------------------------------------------------------------------
\* apply_text_edits, in steps

\* "{}.{},{}.{}" of one KakouneTextEdit's range
select_range(e) ==
    FormatRange(e.range.start.line, e.range.start.character,
                e.range.end.line, e.range.end.character)

\* select_ranges with equal consecutive ranges merged into one
select_ranges_dedup(es) ==
    LET keep == {k \in 1..Len(es) : k = 1 \/ es[k].range # es[k - 1].range}
        nth[n \in 0..Len(es)] ==
            IF n = 0 THEN 0 ELSE CHOOSE k \in keep : k > nth[n - 1] /\ \A m \in keep : m > nth[n - 1] => k <= m
    IN [n \in 1..Cardinality(keep) |-> Str(select_range(es[nth[n]]))]

select_ranges(es) == [k \in 1..Len(es) |-> Str(select_range(es[k]))]

\* whether the pair (pair0, pair1) of consecutive edits adjoins
adjoin(pair0, pair1) ==
    LET end == pair0.range.end
        start == pair1.range.start
    IN \/ end.line = start.line /\ end.character + 1 = start.character
       \/ /\ end.line + 1 = start.line
          /\ end.character = EOL
          /\ start.character = 1

\* indices (0-based) of the windows(2) whose pair adjoins
adjoin_selections_of(es) ==
    {k \in 0..(Len(es) - 2) : adjoin(es[k + 1], es[k + 2])}

command_name(command) ==
    CASE command = "InsertBefore" -> "lsp-insert-before-selection"
      [] command = "InsertAfter" -> "lsp-insert-after-selection"
      [] command = "Replace" -> "lsp-replace-selection"

\* the String one iteration of the apply_edits closure returns
apply_command(index, e) ==
    <<"exec ", Q,
      "z" \o (IF index > 0 THEN ToString(index) \o ")" ELSE "") \o "<space>",
      Q,
      "\n                    " \o command_name(e.command) \o " ">>
    \o editor_quote(e.new_text)

\* advances with the counter moved on after every edit
advances_always(adj, idx, e) == TRUE

\* advances with the emptiness of the text left out
advances_ignoring_text(adj, idx, e) == ~(idx \in adj)

\* whether the closure advances selection_index after edit number idx (0-based)
advances(adj, idx, e) == ~(idx \in adj /\ e.new_text = <<>>)

\* "select {}\n exec -save-regs '' Z\n {}"
select_command(sel, applied) ==
    <<"select ">> \o sel \o <<"\n            exec -save-regs ", Q, Q, " Z\n            ">>
    \o applied

eval_command(command) ==
    <<"eval -draft -save-regs ", Q, "^", Q, " ">> \o editor_quote(command)

\* Url::to_file_path
to_file_path(u) == u.path

\* target_command with no wrapper for the active buffer
target_command_skip_active(u, command) ==
    IF u # None /\ to_file_path(u) # buffile
    THEN <<"lsp-apply-edits-to-file ">> \o editor_quote(to_file_path(u))
         \o <<" ">> \o editor_quote(command)
    ELSE command

\* the final match on uri
target_command(u, command) ==
    IF u # None
    THEN <<"lsp-apply-edits-to-file ">> \o editor_quote(to_file_path(u))
         \o <<" ">> \o editor_quote(command)
    ELSE command

---------------------------------------------------------------------------
\* Inputs

PosLeq(p, q) == p.line < q.line \/ (p.line = q.line /\ p.character <= q.character)

Positions == {Position(l, c) : l \in 0..MaxLine, c \in 0..MaxCol}
\* end >= start in document order
Ranges == {r \in {Range(s, e) : s \in Positions, e \in Positions} : PosLeq(r.start, r.end)}
Texts == {<<>>, <<"x">>}
TextEdits == {TextEdit(r, t) : r \in Ranges, t \in Texts}

At(l, c) == Range(Position(l, c), Position(l, c))
ScenarioA == <<TextEdit(At(4, 2), <<"x">>)>>
ScenarioC == <<TextEdit(Range(Position(2, 0), Position(3, 0)), <<>>),
               TextEdit(At(3, 0), <<"line\n">>)>>
ScenarioCSwapped == <<ScenarioC[2], ScenarioC[1]>>
ScenarioQuote == <<TextEdit(Range(Position(0, 1), Position(0, 3)), <<"it", Q, "s">>)>>
\* two deletions side by side on one line
ScenarioAdjoin == <<TextEdit(Range(Position(0, 0), Position(0, 1)), <<>>),
                    TextEdit(Range(Position(0, 1), Position(0, 2)), <<>>)>>
\* a replacement, a deletion that adjoins its successor, a replacement
ScenarioMixed == <<TextEdit(Range(Position(0, 0), Position(0, 1)), <<"a">>),
                   TextEdit(Range(Position(0, 1), Position(0, 2)), <<>>),
                   TextEdit(Range(Position(0, 2), Position(0, 3)), <<"b">>)>>
Scenarios == {ScenarioA, ScenarioC, ScenarioCSwapped, ScenarioQuote,
              ScenarioAdjoin, ScenarioMixed}

Batches == (UNION {[1..n -> TextEdits] : n \in 0..MaxEdits}) \cup Scenarios

ActiveFile == <<"/a">>
Files == {ActiveFile, <<"/b">>}
Url(path) == [scheme |-> "file", path |-> path]
Uris == {None} \cup {Url(f) : f \in Files}

\* columns up to and including the end-of-line column, lines in any order
WideCols == (0..(MaxCol + 2)) \cup {EOL - 1, EOL}
WidePositions == {Position(l, c) : l \in 0..(MaxLine + 1), c \in WideCols}
WideRanges == {Range(s, e) : s \in WidePositions, e \in WidePositions}

NoConversion ==
    /\ the_range = None
    /\ called = {}
    /\ kak_coords = None
    /\ kak_range = None
    /\ kak_edit = None

NoBatch ==
    /\ text_edits = <<>>
    /\ uri = None
    /\ buffile = <<>>
    /\ pc = "idle"
    /\ edits = <<>>
    /\ select_edits = <<>>
    /\ adjoin_selections = {}
    /\ selection_index = 0
    /\ i = 0
    /\ apply_edits = <<>>
    /\ result = None

---------------------------------------------------------------------------
\* apply_text_edits

Init ==
    /\ text_edits \in Batches
    /\ uri = None
    /\ buffile = ActiveFile
    /\ pc = "start"
    /\ edits = <<>>
    /\ select_edits = <<>>
    /\ adjoin_selections = {}
    /\ selection_index = 0
    /\ i = 0
    /\ apply_edits = <<>>
    /\ result = None
    /\ NoConversion

\* if text_edits.is_empty() { return "nop" }, whatever uri is
ReturnNop ==
    /\ pc = "start"
    /\ text_edits = <<>>
    /\ uri' \in Uris
    /\ result' = <<"nop">>
    /\ pc' = "done"
    /\ UNCHANGED <<text_edits, buffile, edits, select_edits, adjoin_selections,
                   selection_index, i, apply_edits>>
    /\ UNCHANGED convVars

\* map, sort_by_key, select_edits, adjoin_selections, selection_index = 0
Prepare ==
    /\ pc = "start"
    /\ text_edits # <<>>
    /\ LET es == sort_by_key([k \in 1..Len(text_edits) |->
                                 lsp_text_edit_to_kakoune(text_edits[k])])
       IN /\ edits' = es
          /\ select_edits' = Join(select_ranges(es), " ")
          /\ adjoin_selections' = adjoin_selections_of(es)
    /\ selection_index' = 0
    /\ i' = 0
    /\ apply_edits' = <<>>
    /\ pc' = "apply"
    /\ UNCHANGED <<text_edits, uri, buffile, result>>
    /\ UNCHANGED convVars

\* one call of the apply_edits closure
ApplyEdit ==
    /\ pc = "apply"
    /\ i < Len(edits)
    /\ LET e == edits[i + 1]
       IN /\ apply_edits' = Append(apply_edits, apply_command(selection_index, e))
          /\ selection_index' = IF advances(adjoin_selections, i, e)
                                THEN selection_index + 1
                                ELSE selection_index
    /\ i' = i + 1
    /\ UNCHANGED <<text_edits, uri, buffile, pc, edits, select_edits,
                   adjoin_selections, result>>
    /\ UNCHANGED convVars

\* join, the two format! calls and the match on uri (the one place uri is read)
Finish ==
    /\ pc = "apply"
    /\ i = Len(edits)
    /\ uri' \in Uris
    /\ result' = target_command(uri',
                    eval_command(select_command(select_edits, Join(apply_edits, "\n"))))
    /\ pc' = "done"
    /\ UNCHANGED <<text_edits, buffile, edits, select_edits, adjoin_selections,
                   selection_index, i, apply_edits>>
    /\ UNCHANGED convVars

Next == ReturnNop \/ Prepare \/ ApplyEdit \/ Finish

Spec == Init /\ [][Next]_vars

---------------------------------------------------------------------------
\* The two conversions of one range

ConvInit ==
    /\ the_range \in WideRanges
    /\ called = {}
    /\ kak_coords = None
    /\ kak_range = None
    /\ kak_edit = None
    /\ NoBatch

CallRangeToKakoune ==
    /\ "lsp_range_to_kakoune" \notin called
    /\ kak_coords' = lsp_range_to_kakoune_coords(the_range)
    /\ kak_range' = lsp_range_to_kakoune(the_range)
    /\ called' = called \cup {"lsp_range_to_kakoune"}
    /\ UNCHANGED <<the_range, kak_edit>>
    /\ UNCHANGED applyVars

CallTextEditToKakoune ==
    /\ "lsp_text_edit_to_kakoune" \notin called
    /\ kak_edit' = lsp_text_edit_to_kakoune(TextEdit(the_range, <<"x">>))
    /\ called' = called \cup {"lsp_text_edit_to_kakoune"}
    /\ UNCHANGED <<the_range, kak_coords, kak_range>>
    /\ UNCHANGED applyVars

ConvNext == CallRangeToKakoune \/ CallTextEditToKakoune

ConvSpec == ConvInit /\ [][ConvNext]_vars

---------------------------------------------------------------------------
\* Vocabulary of the properties

Converted == pc \in {"apply", "done"}
Returned == pc = "done"
ZeroLength(r) == r.start = r.end
RangeDone == "lsp_range_to_kakoune" \in called
EditDone == "lsp_text_edit_to_kakoune" \in called

\* lexicographic <= on (line, column) pairs and on 4-tuples, written out
PairLeq(l1, c1, l2, c2) == l1 < l2 \/ (l1 = l2 /\ c1 <= c2)
KeyLeq(a, b) ==
    \/ a[1] < b[1]
    \/ a[1] = b[1] /\ a[2] < b[2]
    \/ a[1] = b[1] /\ a[2] = b[2] /\ a[3] < b[3]
    \/ a[1] = b[1] /\ a[2] = b[2] /\ a[3] = b[3] /\ a[4] <= b[4]
KeyOf(e) == <<e.range.start.line, e.range.start.character,
              e.range.end.line, e.range.end.character>>

RECURSIVE CountPiece(_, _)
CountPiece(s, piece) ==
    IF s = <<>> THEN 0
    ELSE (IF Head(s) = piece THEN 1 ELSE 0) + CountPiece(Tail(s), piece)

Wrapped == Head(result) = "lsp-apply-edits-to-file "
Bare == Head(result) = "eval -draft -save-regs "

\* the eval -draft block of the select directive and the apply directives emitted
EvalBlock ==
    <<"eval -draft -save-regs ", Q, "^", Q, " ">>
    \o editor_quote(<<"select ">> \o select_edits
                    \o <<"\n            exec -save-regs ", Q, Q, " Z\n            ">>
                    \o Join(apply_edits, "\n"))

---------------------------------------------------------------------------
\* C1

\* C1 as stated: every zero-length edit at (L, C) becomes the native range
\* (L+1, C+1)-(L+1, C+1), InsertAfter when C > 0 and InsertBefore when C = 0,
\* and the single edit at (4,2)-(4,2) with text "x" selects 5.3,5.3 and then
\* runs lsp-insert-after-selection 'x'.
C1_AsStated ==
    Converted =>
        /\ \A k \in 1..Len(text_edits) :
              LET te == text_edits[k]
                  L == te.range.start.line
                  C == te.range.start.character
              IN ZeroLength(te.range) =>
                    \E m \in 1..Len(edits) :
                        edits[m] = [range |-> At(L + 1, C + 1),
                                    new_text |-> te.new_text,
                                    command |-> IF C > 0 THEN "InsertAfter"
                                                ELSE "InsertBefore"]
        /\ text_edits = ScenarioA => Flat(select_edits) = "5.3,5.3"

\* C1 amended: every zero-length edit at (L, C) becomes a native range with
\* start = end, at (L+1, C) with kind InsertAfter when C > 0 and at (L+1, 1)
\* with kind InsertBefore when C = 0; the single edit at (4,2)-(4,2) with text
\* "x" selects 5.2,5.2 and then runs lsp-insert-after-selection 'x'.
C1_InsertAnchor ==
    Converted =>
        /\ \A k \in 1..Len(text_edits) :
              LET te == text_edits[k]
                  L == te.range.start.line
                  C == te.range.start.character
              IN ZeroLength(te.range) =>
                    \E m \in 1..Len(edits) :
                        edits[m] = [range |-> At(L + 1, IF C > 0 THEN C ELSE 1),
                                    new_text |-> te.new_text,
                                    command |-> IF C > 0 THEN "InsertAfter"
                                                ELSE "InsertBefore"]
        /\ text_edits = ScenarioA =>
              /\ Flat(select_edits) = "5.2,5.2"
              /\ i >= 1 => Flat(apply_edits[1]) =
                    "exec 'z<space>'\n                    lsp-insert-after-selection 'x'"
              /\ (Returned /\ uri = None) => Flat(result) =
                    "eval -draft -save-regs '^' 'select 5.2,5.2\n            exec -save-regs '''' Z\n            exec ''z<space>''\n                    lsp-insert-after-selection ''x'''"

C1_Witness == Returned /\ text_edits = ScenarioA /\ uri = None

---------------------------------------------------------------------------
\* C3

DeleteThenInsertAtBol(b) ==
    /\ Len(b) = 2
    /\ \E d \in 1..2 :
          LET del == b[d]
              ins == b[3 - d]
          IN /\ del.range.start.character = 0
             /\ del.range.end.character = 0
             /\ del.range.start.line < del.range.end.line
             /\ del.new_text = <<>>
             /\ ZeroLength(ins.range)
             /\ ins.range.start = del.range.end
             /\ ins.new_text # <<>>

\* C3: a deletion (S,0)-(E,0), S < E, with empty text and an insertion at (E,0)
\* with non-empty text, in either input order: the deletion is ordered first, the
\* pair is flagged adjoining through the cross-line end-of-line form, the counter
\* is not advanced after the deletion, and the insertion is applied with
\* exec 'z<space>', without a count.
C3_DeleteThenInsert ==
    (Converted /\ DeleteThenInsertAtBol(text_edits)) =>
        /\ edits[1].command = "Replace" /\ edits[1].new_text = <<>>
        /\ edits[2].command = "InsertBefore" /\ edits[2].new_text # <<>>
        /\ edits[1].range.end.character = EOL
        /\ edits[1].range.end.line + 1 = edits[2].range.start.line
        /\ edits[2].range.start.character = 1
        /\ adjoin_selections = {0}
        /\ i = 1 => selection_index = 0
        /\ i = 2 =>
              /\ selection_index = 1
              /\ SubSeq(apply_edits[2], 1, 4) = <<"exec ", Q, "z<space>", Q>>
              /\ apply_edits[2][5] = "\n                    lsp-insert-before-selection "

C3_Witness ==
    /\ Returned
    /\ text_edits = ScenarioCSwapped
    /\ Len(apply_edits) = 2

---------------------------------------------------------------------------
\* C4

\* C4: an empty batch returns exactly "nop", with or without a uri; a non-empty
\* batch never returns "nop", and its result holds one select directive with one
\* range per input edit and one apply directive per input edit.
C4_NopOrOnePerEdit ==
    Returned =>
        IF text_edits = <<>>
        THEN result = <<"nop">>
        ELSE /\ Wrapped \/ Bare
             /\ CountPiece(result, "select ") = 1
             /\ CountPiece(result, "exec ") = Len(text_edits)
             /\ CountPiece(select_edits, " ") = Len(text_edits) - 1
             /\ Len(select_edits) = 2 * Len(text_edits) - 1
             /\ Len(apply_edits) = Len(text_edits)
             /\ result = (IF Wrapped
                          THEN <<"lsp-apply-edits-to-file ">>
                               \o editor_quote(uri.path) \o <<" ">>
                               \o editor_quote(EvalBlock)
                          ELSE EvalBlock)

C4_Witness ==
    /\ Returned
    /\ Len(text_edits) = MaxEdits
    /\ uri = None
    /\ CountPiece(result, "exec ") = MaxEdits

---------------------------------------------------------------------------
\* C5

Perms(n) == {p \in [1..n -> 1..n] : \A a, b \in 1..n : a # b => p[a] # p[b]}

\* C5: the select ranges and the apply directives follow one sequence, which is a
\* permutation of the converted input edits in ascending order of (start line,
\* start column, end line, end column); edits with equal 4-tuples keep their
\* input order.
C5_StableAscending ==
    Converted =>
        LET n == Len(text_edits)
        IN /\ Len(edits) = n
           /\ \E p \in Perms(n) :
                 /\ \A k \in 1..n : edits[k] = lsp_text_edit_to_kakoune(text_edits[p[k]])
                 /\ \A k, m \in 1..n :
                       k < m =>
                          /\ KeyLeq(KeyOf(edits[k]), KeyOf(edits[m]))
                          /\ KeyOf(edits[k]) = KeyOf(edits[m]) => p[k] < p[m]
           /\ select_edits =
                 Join([k \in 1..n |->
                         <<ToString(edits[k].range.start.line) \o "."
                           \o ToString(edits[k].range.start.character) \o ","
                           \o ToString(edits[k].range.end.line) \o "."
                           \o ToString(edits[k].range.end.character)>>], " ")
           /\ \A k \in 1..Len(apply_edits) :
                 /\ apply_edits[k][5] =
                       "\n                    " \o command_name(edits[k].command) \o " "
                 /\ SubSeq(apply_edits[k], 6, Len(apply_edits[k])) =
                       editor_quote(edits[k].new_text)

\* two edits with the same native 4-tuple that are told apart
C5_Witness ==
    /\ Returned
    /\ Len(edits) = 2
    /\ KeyOf(edits[1]) = KeyOf(edits[2])
    /\ edits[1] # edits[2]
    /\ edits[1] = lsp_text_edit_to_kakoune(text_edits[1])

---------------------------------------------------------------------------
\* C8

\* C8 as stated: a non-empty batch is wrapped in lsp-apply-edits-to-file exactly
\* when a uri is supplied and differs from the active document; otherwise the
\* bare eval -draft block is returned.
C8_AsStated ==
    (Returned /\ text_edits # <<>>) =>
        /\ Wrapped <=> (uri # None /\ to_file_path(uri) # buffile)
        /\ ~Wrapped => result = EvalBlock

\* C8 amended: a non-empty batch is wrapped in lsp-apply-edits-to-file <quoted
\* path> <quoted block> exactly when a uri is supplied, whether or not it names
\* the active document; with no uri the bare eval -draft block is returned.
C8_WrappedIffUri ==
    (Returned /\ text_edits # <<>>) =>
        /\ Wrapped <=> uri # None
        /\ Wrapped => result = <<"lsp-apply-edits-to-file ">>
                                 \o editor_quote(uri.path) \o <<" ">>
                                 \o editor_quote(EvalBlock)
        /\ ~Wrapped => result = EvalBlock

C8_Witness ==
    /\ Returned
    /\ text_edits # <<>>
    /\ uri # None
    /\ uri.path = buffile
    /\ Wrapped

---------------------------------------------------------------------------
\* C9

\* the edits before number k (0-based) that moved the counter on
Moved(k) ==
    {j \in 0..(k - 1) : ~(j \in adjoin_selections /\ edits[j + 1].new_text = <<>>)}

CountPrefix(k) == IF k > 0 THEN "z" \o ToString(k) \o ")<space>" ELSE "z<space>"

FullyAdjoiningAllEmpty ==
    /\ \A j \in 0..(Len(edits) - 2) : j \in adjoin_selections
    /\ \A j \in 1..Len(edits) : edits[j].new_text = <<>>

\* C9 (state part): when the directive of sorted edit k is emitted the counter
\* equals the number of earlier edits that are not both flagged adjoining and
\* empty, and the directive carries "k)" exactly when that number k is positive.
C9_CounterInv ==
    pc = "apply" =>
        /\ i = 0 => selection_index = 0
        /\ i < Len(edits) => selection_index = Cardinality(Moved(i))
        /\ selection_index <= i
        /\ \A k \in 0..(i - 1) :
              /\ apply_edits[k + 1][3] = CountPrefix(Cardinality(Moved(k)))
              /\ Cardinality(Moved(k)) <= k
        /\ FullyAdjoiningAllEmpty =>
              \A k \in 1..i : apply_edits[k][3] = "z<space>"

\* C9: the counter starts at 0; when the directive of sorted edit k is emitted it
\* equals the number of earlier edits that are not both flagged adjoining and
\* empty, and the directive carries "k)" exactly when that number k is positive;
\* so the counter never decreases, grows by at most 1 per edit, is at most k at
\* edit k, and stays 0 over fully adjoining edits that are all empty.
C9_Counter ==
    /\ []C9_CounterInv
    /\ [][selection_index' \in {selection_index, selection_index + 1}]_vars

C9_Witness ==
    /\ pc = "apply"
    /\ i = 2
    /\ Len(edits) = 2
    /\ FullyAdjoiningAllEmpty
    /\ selection_index = 1

---------------------------------------------------------------------------
\* C2

\* C2 as stated: every range, zero-length ones included, that ends at column 0 of
\* line E gets the native end (E, 1000000) from both conversions.
C2_AsStated ==
    (the_range # None /\ the_range.end.character = 0) =>
        /\ RangeDone => kak_coords[3] = the_range.end.line /\ kak_coords[4] = EOL
        /\ EditDone => kak_edit.range.end = Position(the_range.end.line, EOL)

\* C2 amended: every range that is not zero-length and ends at column 0 of line E
\* gets the native end (E, 1000000) from both conversions, never one on line E+1;
\* a zero-length range at (E, 0) gets the native end (E+1, 1) from both.
C2_EndOfPreviousLine ==
    (the_range # None /\ the_range.end.character = 0) =>
        LET E == the_range.end.line
            nativeEnd == IF ZeroLength(the_range) THEN <<E + 1, 1>> ELSE <<E, EOL>>
        IN /\ RangeDone =>
                /\ <<kak_coords[3], kak_coords[4]>> = nativeEnd
                /\ kak_range = ToString(the_range.start.line + 1) \o "."
                                  \o ToString(the_range.start.character + 1) \o ","
                                  \o ToString(nativeEnd[1]) \o "." \o ToString(nativeEnd[2])
           /\ EditDone =>
                kak_edit.range.end = Position(nativeEnd[1], nativeEnd[2])

C2_Witness ==
    /\ the_range # None
    /\ the_range.end.character = 0
    /\ ~ZeroLength(the_range)
    /\ RangeDone
    /\ EditDone
    /\ kak_coords[4] = EOL

---------------------------------------------------------------------------
\* C6

Plain(r) == ~ZeroLength(r) /\ r.end.character > 0

\* C6: a range that is not zero-length and whose end column is positive becomes
\* (start line + 1, start column + 1, end line + 1, end column) under both
\* conversions; taking 1 off the first three recovers the range, and no other
\* such range has the same native range.
C6_RoundTrip ==
    (the_range # None /\ Plain(the_range)) =>
        LET native == <<the_range.start.line + 1, the_range.start.character + 1,
                        the_range.end.line + 1, the_range.end.character>>
        IN /\ RangeDone =>
                /\ kak_coords = native
                /\ Range(Position(kak_coords[1] - 1, kak_coords[2] - 1),
                         Position(kak_coords[3] - 1, kak_coords[4])) = the_range
                /\ kak_range = ToString(native[1]) \o "." \o ToString(native[2]) \o ","
                                  \o ToString(native[3]) \o "." \o ToString(native[4])
                /\ \A r2 \in WideRanges :
                      (Plain(r2) /\ r2 # the_range) => lsp_range_to_kakoune(r2) # kak_range
           /\ EditDone =>
                /\ KeyOf(kak_edit) = native
                /\ Range(Position(kak_edit.range.start.line - 1,
                                  kak_edit.range.start.character - 1),
                         Position(kak_edit.range.end.line - 1,
                                  kak_edit.range.end.character)) = the_range
                /\ \A r2 \in WideRanges :
                      (Plain(r2) /\ r2 # the_range) =>
                          lsp_text_edit_to_kakoune(TextEdit(r2, <<"x">>)).range
                              # kak_edit.range

C6_Witness ==
    /\ the_range = Range(Position(0, 1), Position(1, 2))
    /\ RangeDone
    /\ EditDone
    /\ kak_range = "1.2,2.2"

---------------------------------------------------------------------------
\* C7

\* C7: a zero-length range at (L, C) becomes the String "L+1.C+1,L+1.C+1" under
\* lsp_range_to_kakoune, native start equal to native end, also when C = 0.
C7_ZeroLengthRange ==
    (the_range # None /\ ZeroLength(the_range) /\ RangeDone) =>
        LET L == the_range.start.line
            C == the_range.start.character
        IN /\ kak_range = ToString(L + 1) \o "." \o ToString(C + 1) \o ","
                             \o ToString(L + 1) \o "." \o ToString(C + 1)
           /\ <<kak_coords[1], kak_coords[2]>> = <<L + 1, C + 1>>
           /\ <<kak_coords[3], kak_coords[4]>> = <<L + 1, C + 1>>
           /\ C = 0 => kak_coords[4] # EOL

C7_Witness ==
    /\ the_range = At(1, 0)
    /\ RangeDone
    /\ kak_range = "2.1,2.1"

---------------------------------------------------------------------------
\* C10

BelowEOL(r) == r.start.character < EOL /\ r.end.character < EOL
Ordered(r) == PairLeq(r.start.line, r.start.character, r.end.line, r.end.character)

\* C10: a range with end >= start and all columns below 1000000 gets a native
\* range with start <= end, (line, column) compared lexicographically, from both
\* conversions.
C10_StartBeforeEnd ==
    (the_range # None /\ Ordered(the_range) /\ BelowEOL(the_range)) =>
        /\ RangeDone =>
              PairLeq(kak_coords[1], kak_coords[2], kak_coords[3], kak_coords[4])
        /\ EditDone =>
              PairLeq(kak_edit.range.start.line, kak_edit.range.start.character,
                      kak_edit.range.end.line, kak_edit.range.end.character)

\* the tight case: the start column is the last one below 1000000
C10_Witness ==
    /\ the_range = Range(Position(0, EOL - 1), Position(1, 0))
    /\ RangeDone
    /\ EditDone
    /\ kak_edit.range.start = kak_edit.range.end

===========================================================================
